---------------------------- MODULE Spec2Model ----------------------------
(***************************************************************************)
(* Model of package job (src/job/types.go): the Job / JobStep / Environment *)
(* data model, its accessors and the output-capture predicates.            *)
(*                                                                         *)
(* Go strings whose bytes the code inspects or formats (Output, Source,    *)
(* the delimiters, Variable, Value) are sequences of byte values; strings  *)
(* the code only carries around (ID, Name, Status, id) are opaque labels.  *)
(*                                                                         *)
(* A Go slice is a header [arr, len] over a backing array kept in `heap`;  *)
(* the capacity of the slice is the length of that array.  append writes   *)
(* into the backing array when the capacity suffices, and allocates        *)
(* otherwise, as the language defines it.                                  *)
(***************************************************************************)
EXTENDS Integers, Sequences, FiniteSets, TLC

VARIABLES
    job,         \* the Job value (slice fields are headers into heap)
    heap,        \* backing arrays of the []EnvVar slices, by array id
    envResults,  \* values returned by currentStepEnvironment(), oldest first
    ret,         \* outcome of currentStep() or stringify(), if just called
    probe        \* results of the JobStep methods called on the current step

vars == <<job, heap, envResults, ret, probe>>

----------------------------------------------------------------------------
(* Bounds of the model *)

MaxSteps == 2    \* steps in a job
MaxEnv == 2      \* entries in one Environment
MaxSpare == 1    \* unused capacity behind the job Environment's entries
MaxCalls == 2    \* results of currentStepEnvironment() kept by the caller

----------------------------------------------------------------------------
(* Environment, EnvVar and slices *)

\* The zero value of EnvVar: what an unused array cell holds.
ZeroEnvVar == [Variable |-> <<>>, Value |-> <<>>]

\* The i-th job-wide variable: "A"=1, "B"="" (an empty value), "C"=3, ...
JobEnvVar(i) ==
    [Variable |-> <<64 + i>>, Value |-> IF i = 2 THEN <<>> ELSE <<48 + i>>]

\* The i-th variable of step k: the same names as the job-wide ones (so a
\* step redefines job variables), with values that tell step and index.
StepEnvVar(k, i) == [Variable |-> <<64 + i>>, Value |-> <<115, 48 + k, 48 + i>>]

Zeros(n) == [i \in 1..n |-> ZeroEnvVar]

\* The entries s[0..len) of a slice header s; cap(s) is Len(h[s.arr]).
Contents(h, s) == SubSeq(h[s.arr], 1, s.len)

\* The capacity of the array append allocates for `needed` entries when
\* the old capacity is oldcap: the runtime doubles the old capacity unless
\* more is needed (size classes do not round the small arrays of the model).
GrowCap(oldcap, needed) == IF needed > 2 * oldcap THEN needed ELSE 2 * oldcap

\* append(s, xs...) with the cells shifted: the first new entry lands on the
\* last entry of s.
appendOffByOne(h, s, xs) ==
    LET n == s.len + Len(xs) IN
    IF n <= Len(h[s.arr])
    THEN [heap |-> [h EXCEPT ![s.arr] =
                       [i \in 1..Len(@) |->
                          IF i >= s.len /\ i < s.len + Len(xs) /\ i >= 1
                          THEN xs[i - s.len + 1] ELSE @[i]]],
          ret |-> [arr |-> s.arr, len |-> n]]
    ELSE [heap |-> Append(h, Contents(h, s) \o xs
                             \o Zeros(GrowCap(Len(h[s.arr]), n) - n)),
          ret |-> [arr |-> Len(h) + 1, len |-> n]]

\* Go's built-in append(s, xs...): when cap(s) holds the result the new
\* entries are written behind s in its own backing array and the result
\* shares that array; otherwise a new array is allocated, s and xs are
\* copied into it and the result refers to the new array.
append(h, s, xs) ==
    LET n == s.len + Len(xs) IN
    IF n <= Len(h[s.arr])
    THEN [heap |-> [h EXCEPT ![s.arr] =
                       [i \in 1..Len(@) |->
                          IF i > s.len /\ i <= n THEN xs[i - s.len] ELSE @[i]]],
          ret |-> [arr |-> s.arr, len |-> n]]
    ELSE [heap |-> Append(h, Contents(h, s) \o xs
                             \o Zeros(GrowCap(Len(h[s.arr]), n) - n)),
          ret |-> [arr |-> Len(h) + 1, len |-> n]]

----------------------------------------------------------------------------
(* Job accessors *)

NoPtr == [panic |-> TRUE, idx |-> 0]

\* currentStep that lets the index run one past the end.
currentStepNoRangeCheck(j) ==
    IF j.StepsCompleted >= 0 /\ j.StepsCompleted <= Len(j.Steps) /\ Len(j.Steps) > 0
    THEN [panic |-> FALSE,
          idx |-> IF j.StepsCompleted = Len(j.Steps)
                  THEN j.StepsCompleted - 1 ELSE j.StepsCompleted]
    ELSE NoPtr

\* &j.Steps[j.StepsCompleted]: a pointer to the element at (0-based) index
\* StepsCompleted, or the runtime's index-out-of-range panic.
currentStep(j) ==
    IF j.StepsCompleted >= 0 /\ j.StepsCompleted < Len(j.Steps)
    THEN [panic |-> FALSE, idx |-> j.StepsCompleted]
    ELSE NoPtr

\* The JobStep a pointer returned by currentStep refers to.
Deref(j, p) == j.Steps[p.idx + 1]

NilSlice == [arr |-> 0, len |-> 0]

\* currentStepEnvironment that merges in the wrong order.
currentStepEnvironmentStepFirst(h, j) ==
    LET p == currentStep(j) IN
    IF p.panic
    THEN [panic |-> TRUE, heap |-> h, ret |-> NilSlice]
    ELSE LET r == append(h, Deref(j, p).Environment,
                         Contents(h, j.Environment))
         IN  [panic |-> FALSE, heap |-> r.heap, ret |-> r.ret]

\* append(j.Environment, j.currentStep().Environment...): the panic of
\* currentStep propagates before append runs.
currentStepEnvironment(h, j) ==
    LET p == currentStep(j) IN
    IF p.panic
    THEN [panic |-> TRUE, heap |-> h, ret |-> NilSlice]
    ELSE LET r == append(h, j.Environment,
                         Contents(h, Deref(j, p).Environment))
         IN  [panic |-> FALSE, heap |-> r.heap, ret |-> r.ret]

----------------------------------------------------------------------------
(* Environment.stringify and EnvVar.String *)

\* EnvVar.String without the separator.
EnvVarStringNoSep(e) == e.Variable \o e.Value

\* fmt.Sprintf("%s=%s", e.Variable, e.Value); 61 is '='.
EnvVarString(e) == e.Variable \o <<61>> \o e.Value

\* make([]string, len(e)) filled with v.String() for each entry, in order.
stringify(e) == [i \in 1..Len(e) |-> EnvVarString(e[i])]

----------------------------------------------------------------------------
(* crypto/md5 on byte sequences.  A 32-bit word is a pair <<hi, lo>> of    *)
(* 16-bit halves, so that no intermediate value leaves the integer range.  *)

\* 2^n for n in 0..16.
Pow2(n) ==
    <<1, 2, 4, 8, 16, 32, 64, 128, 256, 512, 1024, 2048, 4096, 8192, 16384,
      32768, 65536>>[n + 1]

\* Addition modulo 2^32.
Add32(a, b) ==
    LET lo == a[2] + b[2]
        hi == a[1] + b[1] + (lo \div 65536)
    IN  <<hi % 65536, lo % 65536>>

\* Rotation of a word to the left by s bits, 0 < s < 32.
RotL32(w, s) ==
    LET x == IF s >= 16 THEN <<w[2], w[1]>> ELSE w
        t == IF s >= 16 THEN s - 16 ELSE s
        p == Pow2(t)
        q == Pow2(16 - t)
    IN  IF t = 0 THEN x
        ELSE <<((x[1] * p) % 65536) + (x[2] \div q),
               ((x[2] * p) % 65536) + (x[1] \div q)>>

\* The round function of round r (1..4) on single bits.
RoundBit(r, b, c, d) ==
    CASE r = 1 -> IF b = 1 THEN c ELSE d                \* (b & c) | (~b & d)
      [] r = 2 -> IF d = 1 THEN b ELSE c                \* (b & d) | (c & ~d)
      [] r = 3 -> (b + c + d) % 2                       \* b ^ c ^ d
      [] r = 4 -> (c + (IF b = 1 \/ d = 0 THEN 1 ELSE 0)) % 2  \* c ^ (b | ~d)

\* Bit n (0..15) of a 16-bit half.
Bit(x, n) == (x \div Pow2(n)) % 2

\* The round function on three 16-bit halves, bit by bit.
RoundHalf(r, b, c, d) ==
    LET y == [n \in 0..15 |-> RoundBit(r, Bit(b, n), Bit(c, n), Bit(d, n))]
    IN  (((y[0] + 2 * y[1]) + (4 * y[2] + 8 * y[3]))
          + ((16 * y[4] + 32 * y[5]) + (64 * y[6] + 128 * y[7])))
        + (((256 * y[8] + 512 * y[9]) + (1024 * y[10] + 2048 * y[11]))
          + ((4096 * y[12] + 8192 * y[13]) + (16384 * y[14] + 32768 * y[15])))

RoundFn(r, b, c, d) ==
    <<RoundHalf(r, b[1], c[1], d[1]), RoundHalf(r, b[2], c[2], d[2])>>

\* The sine table: floor(2^32 * abs(sin(i))) for i = 1..64.
MD5Table ==
    <<
       <<55146, 42104>>, <<59591, 46934>>, <<9248, 28891>>, <<49597, 52974>>,
       <<62844, 4015>>, <<18311, 50730>>, <<43056, 17939>>, <<64838, 38145>>,
       <<27008, 39128>>, <<35652, 63407>>, <<65535, 23473>>, <<35164, 55230>>,
       <<27536, 4386>>, <<64920, 29075>>, <<42617, 17294>>, <<18868, 2081>>,
       <<63006, 9570>>, <<49216, 45888>>, <<9822, 23121>>, <<59830, 51114>>,
       <<54831, 4189>>, <<580, 5203>>, <<55457, 59009>>, <<59347, 64456>>,
       <<8673, 52710>>, <<49975, 2006>>, <<62677, 3463>>, <<17754, 5357>>,
       <<43491, 59653>>, <<64751, 41976>>, <<26479, 729>>, <<36138, 19594>>,
       <<65530, 14658>>, <<34673, 63105>>, <<28061, 24866>>, <<64997, 14348>>,
       <<42174, 59972>>, <<19422, 53161>>, <<63163, 19296>>, <<48831, 48240>>,
       <<10395, 32454>>, <<60065, 10234>>, <<54511, 12421>>, <<1160, 7429>>,
       <<55764, 53305>>, <<59099, 39397>>, <<8098, 31992>>, <<50348, 22117>>,
       <<62505, 8772>>, <<17194, 65431>>, <<43924, 9127>>, <<64659, 41017>>,
       <<25947, 22979>>, <<36620, 52370>>, <<65519, 62589>>, <<34180, 24017>>,
       <<28584, 32335>>, <<65068, 59104>>, <<41729, 17172>>, <<19976, 4513>>,
       <<63315, 32386>>, <<48442, 62005>>, <<10967, 53947>>, <<60294, 54161>>
    >>

\* The per-step rotation amounts.
MD5Shift ==
    <<7, 12, 17, 22, 7, 12, 17, 22, 7, 12, 17, 22, 7, 12, 17, 22,
      5, 9, 14, 20, 5, 9, 14, 20, 5, 9, 14, 20, 5, 9, 14, 20,
      4, 11, 16, 23, 4, 11, 16, 23, 4, 11, 16, 23, 4, 11, 16, 23,
      6, 10, 15, 21, 6, 10, 15, 21, 6, 10, 15, 21, 6, 10, 15, 21>>

\* The message word step i (0..63) reads.
MD5Index(i) ==
    CASE i < 16 -> i
      [] i >= 16 /\ i < 32 -> (5 * i + 1) % 16
      [] i >= 32 /\ i < 48 -> (3 * i + 5) % 16
      [] i >= 48 -> (7 * i) % 16

\* One step of the compression: step i (0..63) on the working state
\* st = <<a, b, c, d>> with message words m.
MD5Step(st, m, i) ==
    LET f == RoundFn((i \div 16) + 1, st[2], st[3], st[4])
        t == Add32(Add32(st[1], f),
                   Add32(MD5Table[i + 1], m[MD5Index(i) + 1]))
    IN  <<st[4], Add32(st[2], RotL32(t, MD5Shift[i + 1])), st[2], st[3]>>

\* The n >= 1 steps from step i on: the first half of them, then the rest.
\* (The test on `mid` makes the state after the first half a value before
\* the second half starts.)
RECURSIVE MD5Steps(_, _, _, _)
MD5Steps(st, m, i, n) ==
    IF n = 1 THEN MD5Step(st, m, i)
    ELSE LET half == n \div 2
             mid == MD5Steps(st, m, i, half)
         IN  IF Len(mid) = 4 THEN MD5Steps(mid, m, i + half, n - half)
             ELSE <<>>

\* The 16 little-endian words of the 64-byte block that starts at byte `at`.
BlockWords(bytes, at) ==
    [k \in 1..16 |->
       LET o == at + 4 * (k - 1) IN
       <<bytes[o + 2] + 256 * bytes[o + 3], bytes[o] + 256 * bytes[o + 1]>>]

\* The digest state after the blocks from number k (0-based) on.
RECURSIVE MD5Blocks(_, _, _)
MD5Blocks(h, bytes, k) ==
    IF 64 * k >= Len(bytes) THEN h
    ELSE LET st == MD5Steps(h, BlockWords(bytes, 64 * k + 1), 0, 64)
         IN  MD5Blocks([j \in 1..4 |-> Add32(h[j], st[j])], bytes, k + 1)

\* The message followed by 0x80, zeros up to 56 modulo 64, and the length
\* in bits as 8 little-endian bytes.
MD5Pad(msg) ==
    LET n == Len(msg)
        z == (55 - n) % 64
        bits == 8 * n
    IN  msg \o <<128>> \o [i \in 1..z |-> 0]
            \o [i \in 1..8 |-> IF i <= 3 THEN (bits \div Pow2(8 * (i - 1))) % 256
                               ELSE 0]

\* md5.Sum(msg): the 16 digest bytes.
MD5Sum(msg) ==
    LET h == MD5Blocks(<<<<26437, 8961>>, <<61389, 43913>>,
                         <<39098, 56574>>, <<4146, 21622>>>>,
                       MD5Pad(msg), 0)
    IN  [i \in 1..16 |->
           LET w == h[((i - 1) \div 4) + 1]
               b == (i - 1) % 4
           IN  CASE b = 0 -> w[2] % 256
                 [] b = 1 -> w[2] \div 256
                 [] b = 2 -> w[1] % 256
                 [] b = 3 -> w[1] \div 256]

\* The byte of a lower-case hexadecimal digit.
HexDigit(d) == IF d < 10 THEN 48 + d ELSE 87 + d

\* fmt's %x of a byte array: two lower-case hexadecimal digits per byte.
Hex(bytes) ==
    [i \in 1..2 * Len(bytes) |->
       LET b == bytes[(i + 1) \div 2] IN
       HexDigit(IF i % 2 = 1 THEN b \div 16 ELSE b % 16)]

----------------------------------------------------------------------------
(* JobStep: output capture policy *)

\* Values of Output: "", "stdout", "stderr", "/", "/out", "foo", "STDOUT",
\* "out/" and "stdoutx".
Outputs ==
    {<<>>, <<115, 116, 100, 111, 117, 116>>, <<115, 116, 100, 101, 114, 114>>,
     <<47>>, <<47, 111, 117, 116>>, <<102, 111, 111>>,
     <<83, 84, 68, 79, 85, 84>>, <<111, 117, 116, 47>>,
     <<115, 116, 100, 111, 117, 116, 120>>}

\* "aaaaaaaa"
A8 == <<97, 97, 97, 97, 97, 97, 97, 97>>

\* Values of Source: "", "a", "ubuntu:14.04" and 56 times "a" (a message
\* that takes two MD5 blocks).
Sources ==
    {<<>>, <<97>>,
     <<117, 98, 117, 110, 116, 117, 58, 49, 52, 46, 48, 52>>,
     A8 \o A8 \o A8 \o A8 \o A8 \o A8 \o A8}

\* Values of a delimiter: "" and "--".
Delimiters == {<<>>, <<45, 45>>}

\* strings.HasPrefix(s, prefix).
HasPrefix(s, prefix) ==
    Len(s) >= Len(prefix) /\ SubSeq(s, 1, Len(prefix)) = prefix

\* usesStdOutPipe that forgets the empty Output.
usesStdOutPipeNoDefault(js) == js.Output = <<115, 116, 100, 111, 117, 116>>

\* js.Output == "stdout" || js.Output == ""
usesStdOutPipe(js) ==
    js.Output = <<115, 116, 100, 111, 117, 116>> \/ js.Output = <<>>

\* js.Output == "stderr"
usesStdErrPipe(js) == js.Output = <<115, 116, 100, 101, 114, 114>>

\* usesFilePipe that looks for the "/" anywhere in Output.
usesFilePipeContains(js) == \E i \in 1..Len(js.Output) : js.Output[i] = 47

\* strings.HasPrefix(js.Output, "/")
usesFilePipe(js) == HasPrefix(js.Output, <<47>>)

\* md5.Sum over the Sources of the model, computed once: the pairs
\* <<source, digest>>.
MD5OfSource == {<<s, MD5Sum(s)>> : s \in Sources}

\* The digest of a byte string.
Digest(bytes) ==
    IF bytes \in Sources
    THEN (CHOOSE p \in MD5OfSource : p[1] = bytes)[2]
    ELSE MD5Sum(bytes)

\* filePipePath that hashes the path given in Output with the Source.
filePipePathOfOutput(js) ==
    <<47, 116, 109, 112, 47>> \o Hex(Digest(js.Source \o js.Output))

\* fmt.Sprintf("/tmp/%x", md5.Sum([]byte(js.Source)))
filePipePath(js) == <<47, 116, 109, 112, 47>> \o Hex(Digest(js.Source))

\* usesDelimitedOutput that is content with one delimiter.
usesDelimitedOutputEither(js) ==
    Len(js.BeginDelimiter) > 0 \/ Len(js.EndDelimiter) > 0

\* len(js.BeginDelimiter) > 0 && len(js.EndDelimiter) > 0
usesDelimitedOutput(js) ==
    Len(js.BeginDelimiter) > 0 /\ Len(js.EndDelimiter) > 0

----------------------------------------------------------------------------
(* Jobs *)

\* A JobStep value.
JobStep(name, source, env, output, begin, end, refresh, id) ==
    [Name |-> name, Source |-> source, Environment |-> env,
     Output |-> output, BeginDelimiter |-> begin, EndDelimiter |-> end,
     Refresh |-> refresh, id |-> id]

\* The Job value with its slices replaced by their entries: every field a
\* reader of the Job can see.
JobValue(j, h) ==
    [ID |-> j.ID, Name |-> j.Name,
     Steps |-> [k \in 1..Len(j.Steps) |->
                  [j.Steps[k] EXCEPT !.Environment = Contents(h, @)]],
     Environment |-> Contents(h, j.Environment),
     StepsCompleted |-> j.StepsCompleted, Status |-> j.Status]

\* `ret` when the step just taken was no call of currentStep or stringify.
NoRet ==
    [op |-> "none", at |-> 0, ptr |-> NoPtr, in |-> <<>>, out |-> <<>>,
     path |-> <<>>]
NoProbe == [m \in {} |-> FALSE]

\* A job as decoded from a request: n steps, a job Environment of jl entries
\* in an array with sp cells to spare, step k's Environment of sl[k] entries.
\* Array 1 backs the job Environment, array 1+k that of step k.
NewJob(n, jl, sp, sl) ==
    [ID |-> "job-1", Name |-> "job",
     Steps |-> [k \in 1..n |->
                  JobStep("step", <<>>, [arr |-> 1 + k, len |-> sl[k]],
                          <<>>, <<>>, <<>>, FALSE, "")],
     Environment |-> [arr |-> 1, len |-> jl],
     StepsCompleted |-> 0, Status |-> "created"]

NewHeap(n, jl, sp, sl) ==
    <<[i \in 1..jl |-> JobEnvVar(i)] \o Zeros(sp)>>
      \o [k \in 1..n |-> [i \in 1..sl[k] |-> StepEnvVar(k, i)]]

Init ==
    /\ \E n \in 0..MaxSteps, jl \in 0..MaxEnv, sp \in 0..MaxSpare :
         \E sl \in [1..n -> 0..MaxEnv] :
            /\ job = NewJob(n, jl, sp, sl)
            /\ heap = NewHeap(n, jl, sp, sl)
    /\ envResults = <<>>
    /\ ret = NoRet
    /\ probe = NoProbe

----------------------------------------------------------------------------
(* Calls of the accessors *)

\* A caller invokes j.currentStep().
CurrentStepCall ==
    /\ ret' = [NoRet EXCEPT !.op = "currentStep", !.at = job.StepsCompleted,
                            !.ptr = currentStep(job)]
    /\ UNCHANGED <<job, heap, envResults, probe>>

\* A caller invokes j.currentStepEnvironment() and keeps the returned
\* Environment.  `snap` remembers the entries the result had on return.
CurrentStepEnvironmentCall ==
    /\ Len(envResults) < MaxCalls
    /\ LET r == currentStepEnvironment(heap, job) IN
         /\ heap' = r.heap
         /\ envResults' = Append(envResults,
               [at |-> job.StepsCompleted, panic |-> r.panic, ret |-> r.ret,
                snap |-> IF r.panic THEN <<>> ELSE Contents(r.heap, r.ret)])
    /\ ret' = NoRet
    /\ UNCHANGED <<job, probe>>

\* The caller hands the Environment it got last to stringify(), as the
\* executor does with the composed environment of the step it starts.
StringifyCall ==
    /\ envResults # <<>>
    /\ ~envResults[Len(envResults)].panic
    /\ LET e == Contents(heap, envResults[Len(envResults)].ret) IN
         ret' = [NoRet EXCEPT !.op = "stringify", !.in = e,
                              !.out = stringify(e)]
    /\ UNCHANGED <<job, heap, envResults, probe>>

----------------------------------------------------------------------------
(* Job Manager: Execute, one loop iteration per step *)

\* The captured output of a step: "out".
Captures == {<<111, 117, 116>>}

\* The loop condition taken one step too far.
ExecuteLoopConditionInclusive(j) == j.StepsCompleted <= Len(j.Steps)

\* "while StepsCompleted < len(Steps)"
ExecuteLoopCondition(j) == j.StepsCompleted < Len(j.Steps)

\* The job after a successful iteration: the counter advances by one and the
\* next step, if any, gets the captured output as its Source.
ExecuteAdvance(j, captured) ==
    [j EXCEPT !.StepsCompleted = @ + 1,
              !.Status = "running",
              !.Steps = [k \in 1..Len(@) |->
                           IF k = j.StepsCompleted + 2
                           THEN [@[k] EXCEPT !.Source = captured]
                           ELSE @[k]]]

\* Execute has not ended for this job.
Active == job.Status \in {"created", "running"}

\* What computing the composed environment of the current step leaves in
\* the heap: the executor gets the result and does not keep it.
ExecuteHeap(h, j) ==
    LET r == currentStepEnvironment(h, j) IN
    IF r.ret.arr \in 1..Len(h) THEN r.heap ELSE h

\* One iteration in which the step succeeds.
ExecuteStepOk ==
    /\ Active
    /\ ExecuteLoopCondition(job)
    /\ \E captured \in Captures :
         job' = ExecuteAdvance(job, captured)
    /\ heap' = ExecuteHeap(heap, job)
    /\ ret' = NoRet
    /\ UNCHANGED <<envResults, probe>>

\* One iteration in which the step fails: the job becomes Failed and no
\* further step runs.
ExecuteStepFail ==
    /\ Active
    /\ ExecuteLoopCondition(job)
    /\ job' = [job EXCEPT !.Status = "failed"]
    /\ heap' = ExecuteHeap(heap, job)
    /\ ret' = NoRet
    /\ UNCHANGED <<envResults, probe>>

\* The loop exits with every step consumed.
ExecuteDone ==
    /\ Active
    /\ ~ExecuteLoopCondition(job)
    /\ job' = [job EXCEPT !.Status = "complete"]
    /\ ret' = NoRet
    /\ UNCHANGED <<heap, envResults, probe>>

Next ==
    \/ CurrentStepCall
    \/ CurrentStepEnvironmentCall
    \/ StringifyCall
    \/ ExecuteStepOk
    \/ ExecuteStepFail
    \/ ExecuteDone

Spec == Init /\ [][Next]_vars

----------------------------------------------------------------------------
(* The JobStep methods, called on the current step of a one-step job *)

\* A job whose single step has the given fields and el Environment entries.
InitStep ==
    /\ \E name \in {"step", "other"}, source \in Sources, el \in {0, 1},
          output \in Outputs, begin \in Delimiters, end \in Delimiters,
          refresh \in BOOLEAN, id \in {"", "c1"} :
         /\ job = [ID |-> "job-1", Name |-> "job",
                   Steps |-> <<JobStep(name, source, [arr |-> 2, len |-> el],
                                       output, begin, end, refresh, id)>>,
                   Environment |-> [arr |-> 1, len |-> 0],
                   StepsCompleted |-> 0, Status |-> "created"]
         /\ heap = <<<<>>, [i \in 1..el |-> StepEnvVar(1, i)]>>
    /\ envResults = <<>>
    /\ ret = NoRet
    /\ probe = NoProbe

\* The step the methods are called on.
Step == Deref(job, currentStep(job))

UsesStdOutPipeCall ==
    /\ "usesStdOutPipe" \notin DOMAIN probe
    /\ probe' = probe @@ ("usesStdOutPipe" :> usesStdOutPipe(Step))
    /\ ret' = NoRet
    /\ UNCHANGED <<job, heap, envResults>>

UsesStdErrPipeCall ==
    /\ "usesStdErrPipe" \notin DOMAIN probe
    /\ probe' = probe @@ ("usesStdErrPipe" :> usesStdErrPipe(Step))
    /\ ret' = NoRet
    /\ UNCHANGED <<job, heap, envResults>>

UsesFilePipeCall ==
    /\ "usesFilePipe" \notin DOMAIN probe
    /\ probe' = probe @@ ("usesFilePipe" :> usesFilePipe(Step))
    /\ ret' = NoRet
    /\ UNCHANGED <<job, heap, envResults>>

UsesDelimitedOutputCall ==
    /\ "usesDelimitedOutput" \notin DOMAIN probe
    /\ probe' = probe @@ ("usesDelimitedOutput" :> usesDelimitedOutput(Step))
    /\ ret' = NoRet
    /\ UNCHANGED <<job, heap, envResults>>

FilePipePathCall ==
    /\ ret' = [NoRet EXCEPT !.op = "filePipePath", !.path = filePipePath(Step)]
    /\ UNCHANGED <<job, heap, envResults, probe>>

NextStep ==
    \/ UsesStdOutPipeCall
    \/ UsesStdErrPipeCall
    \/ UsesFilePipeCall
    \/ UsesDelimitedOutputCall
    \/ FilePipePathCall

SpecStep == InitStep /\ [][NextStep]_vars

----------------------------------------------------------------------------
(* Properties *)

JobEnv == Contents(heap, job.Environment)
StepEnv(k) == Contents(heap, job.Steps[k].Environment)
Called(m) == m \in DOMAIN probe
StartsWithSlash(o) == Len(o) > 0 /\ o[1] = 47
IsStdout(o) == o = <<>> \/ o = <<115, 116, 100, 111, 117, 116>>
IsStderr(o) == o = <<115, 116, 100, 101, 114, 114>>
BaseModes == {"usesStdOutPipe", "usesStdErrPipe", "usesFilePipe"}
ModesTrue == {m \in BaseModes : probe[m]}

\* C1: for a job whose StepsCompleted is a valid step index,
\* currentStepEnvironment() does not fail and returns the job Environment
\* followed by the current step's Environment: the lengths add up, every
\* entry keeps its place within its scope, nothing is dropped or merged.
C1_ComposedEnvironment ==
    \A n \in 1..Len(envResults) :
       LET r == envResults[n] IN
       r.at \in 0..(Len(job.Steps) - 1) =>
          /\ ~r.panic
          /\ r.ret.len = Len(JobEnv) + Len(StepEnv(r.at + 1))
          /\ Len(r.snap) = r.ret.len
          /\ \A i \in 1..Len(JobEnv) : r.snap[i] = JobEnv[i]
          /\ \A i \in 1..Len(StepEnv(r.at + 1)) :
                r.snap[Len(JobEnv) + i] = StepEnv(r.at + 1)[i]

\* A result composed of two job-wide and two step entries, the step
\* redefining variables of the job.
C1_Witness ==
    \E n \in 1..Len(envResults) :
       /\ ~envResults[n].panic
       /\ Len(JobEnv) = 2
       /\ Len(StepEnv(envResults[n].at + 1)) = 2
       /\ envResults[n].snap[1].Variable = envResults[n].snap[3].Variable
       /\ envResults[n].snap[1].Value # envResults[n].snap[3].Value

\* C2: a call of currentStep() or currentStepEnvironment() leaves every
\* field of the Job as it was: ID, Name, the steps and their fields, the
\* Environment's length and entries, StepsCompleted and Status.
C2_PureProjections ==
    [][(ret'.op = "currentStep" \/ Len(envResults') > Len(envResults))
          => JobValue(job', heap') = JobValue(job, heap)]_vars

\* currentStepEnvironment() has written into the spare capacity of the
\* job's own Environment array.
C2_Witness ==
    \E n \in 1..Len(envResults) :
       /\ ~envResults[n].panic
       /\ envResults[n].ret.arr = job.Environment.arr
       /\ envResults[n].ret.len > job.Environment.len
       /\ job.Environment.len > 0

\* C3 as stated: whatever Output is, exactly one of usesStdOutPipe(),
\* usesStdErrPipe() and usesFilePipe() returns true.
C3_ExactlyOneMode ==
    BaseModes \subseteq DOMAIN probe => Cardinality(ModesTrue) = 1

\* C3 amended: at most one of usesStdOutPipe(), usesStdErrPipe() and
\* usesFilePipe() returns true; exactly one does when Output is "",
\* "stdout", "stderr" or begins with "/", and none does for any other Output.
C3_AtMostOneMode ==
    BaseModes \subseteq DOMAIN probe =>
       /\ Cardinality(ModesTrue) <= 1
       /\ Cardinality(ModesTrue) = 1
            <=> \/ IsStdout(Step.Output)
                \/ IsStderr(Step.Output)
                \/ StartsWithSlash(Step.Output)

\* The three methods have been called on a step whose Output is an
\* absolute path: the file mode alone applies.
C3_Witness ==
    /\ BaseModes \subseteq DOMAIN probe
    /\ StartsWithSlash(Step.Output)
    /\ ModesTrue = {"usesFilePipe"}

\* C4: the three predicates are decided by Output alone: usesStdOutPipe()
\* is true exactly for "" and "stdout", usesStdErrPipe() exactly for
\* "stderr", usesFilePipe() exactly for an Output that starts with "/"; for
\* any other Output all three are false, and no two are true together.
C4_PolicySelection ==
    /\ Called("usesStdOutPipe") =>
          (probe["usesStdOutPipe"] <=> IsStdout(Step.Output))
    /\ Called("usesStdErrPipe") =>
          (probe["usesStdErrPipe"] <=> IsStderr(Step.Output))
    /\ Called("usesFilePipe") =>
          (probe["usesFilePipe"] <=> StartsWithSlash(Step.Output))
    /\ \A m1, m2 \in BaseModes \cap DOMAIN probe :
          probe[m1] /\ probe[m2] => m1 = m2
    /\ (BaseModes \subseteq DOMAIN probe
          /\ ~IsStdout(Step.Output) /\ ~IsStderr(Step.Output)
          /\ ~StartsWithSlash(Step.Output)) => ModesTrue = {}

\* The unrecognized-policy condition: all three methods called on a step
\* with Output "foo" and other fields set, and all three false.
C4_Witness ==
    /\ BaseModes \subseteq DOMAIN probe
    /\ Step.Output = <<102, 111, 111>>
    /\ Step.Source # <<>> /\ Step.Refresh /\ Step.BeginDelimiter # <<>>
    /\ ModesTrue = {}

\* C5: filePipePath() is decided by Source alone: a step gets the path of
\* the step that has the same Source and nothing else set, and the path is
\* "/tmp/" followed by 32 lower-case hexadecimal digits.
C5_PathFromSource ==
    ret.op = "filePipePath" =>
       /\ ret.path = filePipePath(JobStep("", Step.Source, NilSlice, <<>>,
                                          <<>>, <<>>, FALSE, ""))
       /\ Len(ret.path) = 37
       /\ SubSeq(ret.path, 1, 5) = <<47, 116, 109, 112, 47>>
       /\ \A i \in 6..37 : ret.path[i] \in (48..57) \cup (97..102)

\* The path of a step with Source "a", an absolute path in Output and
\* every other field set: "/tmp/0cc175b9c0f1b6a831c399e269772661".
C5_Witness ==
    /\ ret.op = "filePipePath"
    /\ Step.Source = <<97>>
    /\ StartsWithSlash(Step.Output) /\ Len(Step.Output) > 1
    /\ Step.Name = "other" /\ Step.id = "c1" /\ Step.Refresh
    /\ Step.Environment.len > 0 /\ Step.BeginDelimiter # <<>>
    /\ ret.path = <<47, 116, 109, 112, 47,
                    48, 99, 99, 49, 55, 53, 98, 57, 99, 48, 102, 49, 98, 54,
                    97, 56, 51, 49, 99, 51, 57, 57, 101, 50, 54, 57, 55, 55,
                    50, 54, 54, 49>>

\* C6: with 0 <= StepsCompleted < len(Steps), currentStep() returns the
\* step at index StepsCompleted; with StepsCompleted = len(Steps) it fails
\* with the out-of-range panic and returns no step.
C6_CurrentStep ==
    ret.op = "currentStep" =>
       /\ job.StepsCompleted \in 0..(Len(job.Steps) - 1) =>
             /\ ~ret.ptr.panic
             /\ ret.ptr.idx = job.StepsCompleted
             /\ Deref(job, ret.ptr) = job.Steps[job.StepsCompleted + 1]
       /\ job.StepsCompleted = Len(job.Steps) => ret.ptr.panic

\* currentStep() has been called on a job that completed its two steps.
C6_Witness ==
    /\ ret.op = "currentStep"
    /\ Len(job.Steps) = 2
    /\ job.StepsCompleted = Len(job.Steps)
    /\ ret.ptr.panic

\* C7: at every point in time 0 <= StepsCompleted <= len(Steps).
C7_StepsCompletedInRange ==
    job.StepsCompleted >= 0 /\ job.StepsCompleted <= Len(job.Steps)

\* A job that ran all of its steps and is complete.
C7_Witness ==
    /\ Len(job.Steps) >= 2
    /\ job.StepsCompleted = Len(job.Steps)
    /\ job.Status = "complete"

\* C8: stringify() returns as many strings as the Environment has entries,
\* the i-th being Variable_i, then "=", then Value_i.
C8_Stringify ==
    ret.op = "stringify" =>
       /\ Len(ret.out) = Len(ret.in)
       /\ \A i \in 1..Len(ret.in) :
             LET v == ret.in[i].Variable
                 w == ret.in[i].Value
                 o == ret.out[i]
             IN  /\ Len(o) = Len(v) + 1 + Len(w)
                 /\ SubSeq(o, 1, Len(v)) = v
                 /\ o[Len(v) + 1] = 61
                 /\ SubSeq(o, Len(v) + 2, Len(o)) = w

\* stringify() of an Environment with a variable that occurs twice and an
\* entry whose value is empty.
C8_Witness ==
    /\ ret.op = "stringify"
    /\ Len(ret.in) >= 3
    /\ \E i, k \in 1..Len(ret.in) :
          i < k /\ ret.in[i].Variable = ret.in[k].Variable
    /\ \E i \in 1..Len(ret.in) :
          ret.in[i].Value = <<>> /\ ret.out[i] = ret.in[i].Variable \o <<61>>

\* C9: usesDelimitedOutput() is true exactly when both delimiters are
\* non-empty, whatever Output is: the step gets the same answer with any
\* other Output.
C9_DelimitedOutput ==
    Called("usesDelimitedOutput") =>
       /\ probe["usesDelimitedOutput"]
            <=> (Step.BeginDelimiter # <<>> /\ Step.EndDelimiter # <<>>)
       /\ \A o \in Outputs :
             usesDelimitedOutput([Step EXCEPT !.Output = o])
               = probe["usesDelimitedOutput"]

\* A step in file mode that also uses delimited output.
C9_Witness ==
    /\ Called("usesDelimitedOutput") /\ Called("usesFilePipe")
    /\ probe["usesDelimitedOutput"] /\ probe["usesFilePipe"]

\* C10: an Environment returned by currentStepEnvironment() keeps the
\* entries it had on return, whatever calls follow.
C10_ResultsIndependent ==
    \A n \in 1..Len(envResults) :
       ~envResults[n].panic =>
          Contents(heap, envResults[n].ret) = envResults[n].snap

=============================================================================
